---- MODULE Spec2Model ----
(***************************************************************************)
(* Model of scripts/p95_p99_parser.py: a command-line run that parses a    *)
(* file of latency samples (parse_latencies), sorts them and reads three   *)
(* order statistics (percentile), and writes P50, P95, P99.                *)
(*                                                                         *)
(* Text is modelled as sequences of one-character strings.  A float is a   *)
(* record [nan, v]: v counts tenths (so 5.5 is v = 55), nan marks the      *)
(* IEEE not-a-number that float("nan") yields.  The file is taken as       *)
(* already decoded text, one element per line, each ending in "\n".        *)
(***************************************************************************)
EXTENDS Integers, Sequences, FiniteSets, TLC

(* ------------------------------ bounds --------------------------------- *)

\* longest file built freely from the candidate lines
MaxLines == 3

\* longest of the generated descending files (lengths 20..MaxLong)
MaxLong == 21

\* longest free sample sequence of the pure-function specification
MaxLen == 3

\* number of percentile calls made on one list in that specification
MaxCalls == 3

(* ------------------------------- text ---------------------------------- *)

DigitChars == <<"0", "1", "2", "3", "4", "5", "6", "7", "8", "9">>

IsDigit(c) == \E d \in 1..10 : DigitChars[d] = c

DigitVal(c) == (CHOOSE d \in 1..10 : DigitChars[d] = c) - 1

\* characters str.strip() removes
IsSpace(c) == c \in {" ", "\n", "\t"}

RECURSIVE LStrip(_)
LStrip(s) == IF s # <<>> /\ IsSpace(Head(s)) THEN LStrip(Tail(s)) ELSE s

RECURSIVE RStrip(_)
RStrip(s) ==
    IF s # <<>> /\ IsSpace(s[Len(s)]) THEN RStrip(SubSeq(s, 1, Len(s) - 1)) ELSE s

\* line.strip()
Strip(s) == RStrip(LStrip(s))

AllDigits(s) == \A j \in 1..Len(s) : IsDigit(s[j])

RECURSIVE DigitsValue(_)
DigitsValue(s) ==
    IF s = <<>> THEN 0
    ELSE 10 * DigitsValue(SubSeq(s, 1, Len(s) - 1)) + DigitVal(s[Len(s)])

(* ------------------------------ floats --------------------------------- *)

FNum(t) == [nan |-> FALSE, v |-> t]

NaN == [nan |-> TRUE, v |-> 0]

\* a < b on floats: every comparison with nan is false
FloatLt(a, b) == ~a.nan /\ ~b.nan /\ a.v < b.v

\* a <= b on floats
FloatLe(a, b) == ~a.nan /\ ~b.nan /\ a.v <= b.v

\* positions of "." in s
DotPositions(s) == {j \in 1..Len(s) : s[j] = "."}

\* float(s) for the alphabet of the model: optional "-", then "nan" or a
\* decimal with at most one fractional digit; ok = FALSE is ValueError.
\* float itself also ignores surrounding whitespace.
PyFloat(s) ==
    LET t    == Strip(s)
        neg  == t # <<>> /\ Head(t) = "-"
        body == IF neg THEN Tail(t) ELSE t
        dots == DotPositions(body)
        dot  == IF dots = {} THEN Len(body) + 1 ELSE CHOOSE j \in dots : TRUE
        ip   == SubSeq(body, 1, dot - 1)
        fp   == SubSeq(body, dot + 1, Len(body))
        mag  == 10 * DigitsValue(ip) + (IF fp = <<>> THEN 0 ELSE DigitsValue(fp))
    IN  IF body = <<"n", "a", "n">> THEN [ok |-> TRUE, val |-> NaN]
        ELSE IF /\ Cardinality(dots) <= 1
                /\ AllDigits(ip) /\ AllDigits(fp)
                /\ Len(ip) + Len(fp) >= 1
                /\ Len(fp) <= 1
             THEN [ok |-> TRUE, val |-> FNum(IF neg THEN 0 - mag ELSE mag)]
             ELSE [ok |-> FALSE, val |-> NaN]

RECURSIVE NatChars(_)
NatChars(m) ==
    IF m < 10 THEN <<DigitChars[m + 1]>>
    ELSE NatChars(m \div 10) \o <<DigitChars[(m % 10) + 1]>>

\* the text an f-string gives a float: repr, shortest form, always with ".d"
FloatRepr(x) ==
    IF x.nan THEN <<"n", "a", "n">>
    ELSE LET a == IF x.v < 0 THEN 0 - x.v ELSE x.v
         IN  (IF x.v < 0 THEN <<"-">> ELSE <<>>)
                \o NatChars(a \div 10) \o <<".">> \o NatChars(a % 10)

(* ------------------------------ list.sort ------------------------------ *)

\* CPython list.sort on a list shorter than 64 elements: the leading run is
\* found (count_run), reversed when strictly descending, and the rest is
\* placed by binary insertion (binarysort).  All comparisons are float "<".

RECURSIVE RunLen(_, _, _)
RunLen(d, desc, j) ==
    IF j < Len(d) /\ (desc <=> FloatLt(d[j + 1], d[j]))
    THEN RunLen(d, desc, j + 1)
    ELSE j

Reverse(s) == [j \in 1..Len(s) |-> s[Len(s) + 1 - j]]

\* l, r are 0-based as in binarysort; the result is the insertion point
RECURSIVE BinarySearch(_, _, _, _)
BinarySearch(d, pivot, l, r) ==
    IF l < r
    THEN LET m == l + ((r - l) \div 2)
         IN  IF FloatLt(pivot, d[m + 1])
             THEN BinarySearch(d, pivot, l, m)
             ELSE BinarySearch(d, pivot, m + 1, r)
    ELSE l

RECURSIVE BinarySort(_, _)
BinarySort(d, start) ==
    IF start >= Len(d) THEN d
    ELSE LET pivot == d[start + 1]
             l     == BinarySearch(d, pivot, 0, start)
             moved == SubSeq(d, 1, l) \o <<pivot>> \o SubSeq(d, l + 1, start)
                         \o SubSeq(d, start + 2, Len(d))
         IN  BinarySort(moved, start + 1)

\* variant: the sorted list is dropped and data stays as parsed
ListSort_NoOp(d) == d

\* data.sort()
ListSort(d) ==
    IF Len(d) < 2 THEN d
    ELSE LET desc == FloatLt(d[2], d[1])
             n    == RunLen(d, desc, 2)
             d1   == IF desc
                     THEN Reverse(SubSeq(d, 1, n)) \o SubSeq(d, n + 1, Len(d))
                     ELSE d
         IN  BinarySort(d1, n)

(* ------------------------------ percentile ----------------------------- *)

\* the fractions main passes, in hundredths
P50 == 50
P95 == 95
P99 == 99

Min(a, b) == IF a <= b THEN a ELSE b

\* int(len(data) * p) for p = pct/100.  The product is a double; for the
\* fractions used here (0, 0.25, 0.50, 0.75, 0.95, 0.99) and every length
\* below 2 * 10^6 its truncation equals the exact floor(n * pct / 100).
IntLenTimesP(n, pct) == (n * pct) \div 100

\* variant: k = ceil(len * p) used as the subscript, without the clamp
Percentile_CeilNoClamp(d, pct) ==
    LET s   == ListSort(d)
        n   == Len(s)
        idx == ((n * pct) + 99) \div 100
        bad == ~(0 - n <= idx /\ idx < n)
    IN  [sorted |-> s, k |-> idx, idx |-> idx, raised |-> bad,
         value  |-> IF bad THEN NaN
                    ELSE s[(IF idx < 0 THEN idx + n ELSE idx) + 1]]

\* variant: an empty list is answered with 0.0 instead of being subscripted
Percentile_EmptyGuard(d, pct) ==
    LET s   == ListSort(d)
        n   == Len(s)
        k   == (n * pct) \div 100
        idx == IF k <= n - 1 THEN k ELSE n - 1
    IN  [sorted |-> s, k |-> k, idx |-> idx, raised |-> FALSE,
         value  |-> IF n = 0 THEN FNum(0) ELSE s[idx + 1]]

\* percentile(data, p): the list after data.sort(), k, the subscript
\* min(k, len - 1), whether the subscript raises IndexError (a list accepts
\* -len .. len-1, negative ones counting from the end), and the value
Percentile(d, pct) ==
    LET s   == ListSort(d)
        n   == Len(s)
        k   == IntLenTimesP(n, pct)
        idx == Min(k, n - 1)
        bad == ~(0 - n <= idx /\ idx < n)
    IN  [sorted |-> s, k |-> k, idx |-> idx, raised |-> bad,
         value  |-> IF bad THEN NaN
                    ELSE s[(IF idx < 0 THEN idx + n ELSE idx) + 1]]

(* ------------------------------ inputs --------------------------------- *)

\* candidate lines, as the file iterator yields them
CandidateLines ==
    { <<"1", "0", "\n">>,
      <<" ", "2", "0", " ", "\n">>,
      <<"5", ".", "5", "\n">>,
      <<"-", "3", "\n">>,
      <<"n", "a", "n", "\n">>,
      <<"a", "b", "c", "\n">>,
      <<"1", "2", ",", "5", "\n">>,
      <<"\n">> }

ShortFiles == UNION { [1..m -> CandidateLines] : m \in 0..MaxLines }

\* the lines "n", "n-1", ..., "1"
DescendingFile(n) == [j \in 1..n |-> NatChars(n + 1 - j) \o <<"\n">>]

LongFiles == { DescendingFile(n) : n \in 20..MaxLong }

Files == ShortFiles \cup LongFiles

(* ------------------------------- state --------------------------------- *)

VARIABLES
    argc,       \* len(sys.argv) - 1
    readable,   \* whether open(file_path) succeeds
    file,       \* the lines of the file
    pc,         \* position of the run
    i,          \* lines consumed by the for loop
    latencies,  \* parse_latencies' list
    original,   \* the list as parse_latencies returned it
    data,       \* main's list, shared by the three calls
    calls,      \* one record per percentile call
    stdout,     \* lines written to standard output
    opens,      \* number of open() attempts
    status,     \* exit status, -1 while running
    error       \* the uncaught exception, "none" if none

vars == <<argc, readable, file, pc, i, latencies, original, data, calls,
          stdout, opens, status, error>>

Init ==
    /\ argc \in 0..2
    /\ readable \in BOOLEAN
    /\ file \in Files
    /\ pc = "main"
    /\ i = 0
    /\ latencies = <<>>
    /\ original = <<>>
    /\ data = <<>>
    /\ calls = <<>>
    /\ stdout = <<>>
    /\ opens = 0
    /\ status = -1
    /\ error = "none"

\* variant: only a missing argument is detected (len(sys.argv) < 2)
Main_OnlyMissing ==
    /\ pc = "main"
    /\ IF argc + 1 < 2
       THEN /\ stdout' = Append(stdout, [tag |-> "Usage", text |-> <<>>])
            /\ status' = 1
            /\ pc' = "exit"
       ELSE /\ pc' = "open"
            /\ UNCHANGED <<stdout, status>>
    /\ UNCHANGED <<argc, readable, file, i, latencies, original, data, calls,
                   opens, error>>

\* lines 22-24: the usage check
Main ==
    /\ pc = "main"
    /\ IF argc + 1 # 2
       THEN /\ stdout' = Append(stdout, [tag |-> "Usage", text |-> <<>>])
            /\ status' = 1
            /\ pc' = "exit"
       ELSE /\ pc' = "open"
            /\ UNCHANGED <<stdout, status>>
    /\ UNCHANGED <<argc, readable, file, i, latencies, original, data, calls,
                   opens, error>>

\* variant: the failed open is caught and answered with the usage line
Open_Caught ==
    /\ pc = "open"
    /\ opens' = opens + 1
    /\ latencies' = <<>>
    /\ IF readable
       THEN /\ pc' = "loop"
            /\ UNCHANGED <<status, stdout>>
       ELSE /\ pc' = "exit"
            /\ status' = 1
            /\ stdout' = Append(stdout, [tag |-> "Usage", text |-> <<>>])
    /\ UNCHANGED <<argc, readable, file, i, original, data, calls, error>>

\* lines 7-8: latencies = [] and open(file_path); a failure is not caught
Open ==
    /\ pc = "open"
    /\ opens' = opens + 1
    /\ latencies' = <<>>
    /\ IF readable
       THEN /\ pc' = "loop"
            /\ UNCHANGED <<status, error>>
       ELSE /\ pc' = "exit"
            /\ status' = 1
            /\ error' = "OSError"
    /\ UNCHANGED <<argc, readable, file, i, original, data, calls, stdout>>

\* variant: break instead of continue in the except clause
ReadLine_Break ==
    /\ pc = "loop"
    /\ i < Len(file)
    /\ LET r == PyFloat(Strip(file[i + 1]))
       IN  /\ latencies' = IF r.ok THEN Append(latencies, r.val) ELSE latencies
           /\ i' = IF r.ok THEN i + 1 ELSE Len(file)
    /\ UNCHANGED <<argc, readable, file, pc, original, data, calls, stdout,
                   opens, status, error>>

\* lines 9-13: one iteration of the for loop
ReadLine ==
    /\ pc = "loop"
    /\ i < Len(file)
    /\ LET r == PyFloat(Strip(file[i + 1]))
       IN  latencies' = IF r.ok THEN Append(latencies, r.val) ELSE latencies
    /\ i' = i + 1
    /\ UNCHANGED <<argc, readable, file, pc, original, data, calls, stdout,
                   opens, status, error>>

\* lines 14 and 26: the loop is over, return latencies, data = ...
Return ==
    /\ pc = "loop"
    /\ i = Len(file)
    /\ data' = latencies
    /\ original' = latencies
    /\ pc' = "p50"
    /\ UNCHANGED <<argc, readable, file, i, latencies, calls, stdout, opens,
                   status, error>>

\* one of lines 27-29: percentile(data, p), then the line is written; an
\* IndexError leaves percentile and main uncaught and nothing is written
Report(at, tag, pct, next) ==
    /\ pc = at
    /\ LET r == Percentile(data, pct)
       IN  /\ data' = r.sorted
           /\ calls' = Append(calls, [pct |-> pct, input |-> data,
                                      n |-> Len(data), k |-> r.k,
                                      idx |-> r.idx, raised |-> r.raised,
                                      value |-> r.value])
           /\ IF r.raised
              THEN /\ pc' = "exit"
                   /\ status' = 1
                   /\ error' = "IndexError"
                   /\ UNCHANGED stdout
              ELSE /\ stdout' = Append(stdout,
                                       [tag |-> tag, text |-> FloatRepr(r.value)])
                   /\ pc' = next
                   /\ status' = IF next = "exit" THEN 0 ELSE status
                   /\ UNCHANGED error
    /\ UNCHANGED <<argc, readable, file, i, latencies, original, opens>>

ReportP50 == Report("p50", "P50", P50, "p95")

\* variant: line 28 passes 0.99
ReportP95_Wrong == Report("p95", "P95", P99, "p99")

ReportP95 == Report("p95", "P95", P95, "p99")

ReportP99 == Report("p99", "P99", P99, "exit")

Next ==
    \/ Main
    \/ Open
    \/ ReadLine
    \/ Return
    \/ ReportP50
    \/ ReportP95
    \/ ReportP99

Spec == Init /\ [][Next]_vars

(* ------------------- percentile as a pure function --------------------- *)

\* fractions in [0, 1), in hundredths, whose double product with a length
\* truncates to the exact floor
Fractions == {0, 25, P50, 75, P95, P99}

SampleValues == {FNum(100), FNum(55), FNum(0 - 30), NaN}

SampleInputs ==
    UNION { [1..m -> SampleValues] : m \in 0..MaxLen }
    \cup { [j \in 1..n |-> FNum(10 * (n + 1 - j))] : n \in 20..MaxLong }

InitPct ==
    /\ argc = 1
    /\ readable = TRUE
    /\ file = <<>>
    /\ pc = "pct"
    /\ i = 0
    /\ latencies = <<>>
    /\ original \in SampleInputs
    /\ data = original
    /\ calls = <<>>
    /\ stdout = <<>>
    /\ opens = 0
    /\ status = -1
    /\ error = "none"

\* percentile(data, p) on the shared list, for any fraction
PctCall ==
    /\ pc = "pct"
    /\ Len(calls) < MaxCalls
    /\ \E pct \in Fractions :
          LET r == Percentile(data, pct)
          IN  /\ data' = r.sorted
              /\ calls' = Append(calls, [pct |-> pct, input |-> data,
                                         n |-> Len(data), k |-> r.k,
                                         idx |-> r.idx, raised |-> r.raised,
                                         value |-> r.value])
    /\ UNCHANGED <<argc, readable, file, pc, i, latencies, original, stdout,
                   opens, status, error>>

NextPct == PctCall

PctSpec == InitPct /\ [][NextPct]_vars

(* ----------------------------- properties ------------------------------ *)

Range(s) == {s[j] : j \in 1..Len(s)}

Count(s, x) == Cardinality({j \in 1..Len(s) : s[j] = x})

IsPermutation(a, b) ==
    /\ Len(a) = Len(b)
    /\ \A x \in Range(a) \cup Range(b) : Count(a, x) = Count(b, x)

\* no element is smaller than an earlier one
Ascending(s) == \A a, b \in 1..Len(s) : a < b => ~FloatLt(s[b], s[a])

NoNaN(s) == \A j \in 1..Len(s) : ~s[j].nan

\* x can stand at 0-based position idx of an ascending arrangement of d:
\* x is in d, at most idx elements are smaller, at most n-1-idx are larger
AtSortedIndex(d, idx, x) ==
    /\ x \in Range(d)
    /\ Cardinality({j \in 1..Len(d) : FloatLt(d[j], x)}) <= idx
    /\ Cardinality({j \in 1..Len(d) : FloatLt(x, d[j])}) <= Len(d) - 1 - idx

\* float(line) succeeds
IsNumericLine(l) == PyFloat(l).ok

\* the values of the numeric lines of ls, in order
NumericValues(ls) ==
    LET valid == SelectSeq(ls, IsNumericLine)
    IN  [j \in 1..Len(valid) |-> PyFloat(valid[j]).val]

PercentileLines == {j \in 1..Len(stdout) : stdout[j].tag \in {"P50", "P95", "P99"}}

UsageLines == {j \in 1..Len(stdout) : stdout[j].tag = "Usage"}

Tags == [j \in 1..Len(stdout) |-> stdout[j].tag]

\* the list a call left behind: the next call's input, or data after the last
After(j) == IF j < Len(calls) THEN calls[j + 1].input ELSE data

\* C1: every percentile call of the program reads the sorted list at
\* min(floor(n * p), n - 1), and that subscript lies within 0..n-1, for every
\* size n parse_latencies can return.
C1_IndexInBounds ==
    \A j \in 1..Len(calls) :
        /\ calls[j].idx = Min((calls[j].n * calls[j].pct) \div 100, calls[j].n - 1)
        /\ 0 <= calls[j].idx
        /\ calls[j].idx <= calls[j].n - 1

\* C2: on a non-empty list, percentile returns the element that stands at
\* index min(floor(n * p), n - 1) of the ascending arrangement of the input.
C2_NearestRank ==
    \A j \in 1..Len(calls) :
        calls[j].n > 0 =>
            /\ ~calls[j].raised
            /\ calls[j].idx = Min((calls[j].n * calls[j].pct) \div 100, calls[j].n - 1)
            /\ AtSortedIndex(calls[j].input, calls[j].idx, calls[j].value)

\* C3: when the process has ended, standard output holds either none or all
\* three of the percentile lines.
C3_NoneOrAllThree ==
    pc = "exit" => Cardinality(PercentileLines) \in {0, 3}

C3_Witness ==
    /\ pc = "exit"
    /\ Cardinality(PercentileLines) = 3
    /\ \E j \in 1..Len(file) : ~IsNumericLine(file[j])

\* C4: parse_latencies collects exactly the values of the numeric lines read
\* so far, in file order with duplicates; a malformed line is dropped and the
\* loop goes on to the end of the file.
C4_ParseKeepsValidLines ==
    (opens = 1 /\ readable) =>
        /\ latencies = NumericValues(SubSeq(file, 1, i))
        /\ pc # "loop" => i = Len(file)
        /\ pc \notin {"loop", "exit"} => original = NumericValues(file)
        /\ error # "ValueError"

C4_Witness ==
    /\ pc = "p50"
    /\ \E a, b \in 1..Len(file) :
          a < b /\ ~IsNumericLine(file[a]) /\ IsNumericLine(file[b])
    /\ \E a, b \in 1..Len(original) : a < b /\ original[a] = original[b]

\* C5: with an argument count other than one the run ends with the usage line
\* as the only output and status 1, no file opened, no percentile computed.
C5_UsageError ==
    argc # 1 =>
        /\ pc \in {"main", "exit"}
        /\ opens = 0
        /\ calls = <<>>
        /\ PercentileLines = {}
        /\ pc = "exit" => (Tags = <<"Usage">> /\ status = 1)

C5_Witness == argc = 2 /\ pc = "exit" /\ Tags = <<"Usage">>

C7_OpenFailure ==
    /\ opens <= 1
    /\ (argc = 1 /\ ~readable) =>
          /\ stdout = <<>>
          /\ calls = <<>>
          /\ pc \in {"main", "open", "exit"}
          /\ pc = "exit" => (opens = 1 /\ status > 0 /\ error = "OSError")

C7_Witness == argc = 1 /\ ~readable /\ pc = "exit" /\ opens = 1

\* C8: with no numeric line in the file parse_latencies returns the empty
\* list, and the first percentile call subscripts it at min(0, -1) = -1 and
\* raises IndexError; the run ends there with a non-zero status.
C8_EmptyInput ==
    (argc = 1 /\ readable /\ NumericValues(file) = <<>>) =>
        /\ error \in {"none", "IndexError"}
        /\ pc \in {"main", "open", "loop", "p50", "exit"}
        /\ stdout = <<>>
        /\ pc = "p50" => (original = <<>> /\ data = <<>> /\ error = "none")
        /\ pc = "exit" =>
              /\ Len(calls) = 1
              /\ calls[1].pct = P50
              /\ calls[1].n = 0
              /\ calls[1].idx = Min(0, 0 - 1)
              /\ calls[1].raised
              /\ error = "IndexError"
              /\ status > 0

C8_Witness ==
    /\ pc = "exit"
    /\ error = "IndexError"
    /\ Len(file) > 0

\* C9: each call leaves the shared list as the ascending permutation of what
\* it was given, every call after the first leaves it unchanged, and each
\* call returns what a call on a fresh copy of the parsed list returns.
C9_SortInPlaceIdempotent ==
    \A j \in 1..Len(calls) :
        /\ IsPermutation(After(j), calls[j].input)
        /\ Ascending(After(j))
        /\ j > 1 => After(j) = calls[j].input
        /\ ~calls[j].raised =>
              calls[j].value = Percentile(original, calls[j].pct).value

\* C10: on a non-empty list without nan the results are monotone in p and
\* lie between the smallest and the largest element.
C10_MonotoneBounded ==
    (original # <<>> /\ NoNaN(original)) =>
        LET lo == CHOOSE x \in Range(original) :
                      \A y \in Range(original) : FloatLe(x, y)
            hi == CHOOSE x \in Range(original) :
                      \A y \in Range(original) : FloatLe(y, x)
        IN  /\ \A a, b \in 1..Len(calls) :
                  calls[a].pct <= calls[b].pct =>
                      FloatLe(calls[a].value, calls[b].value)
            /\ \A a \in 1..Len(calls) :
                  /\ ~calls[a].raised
                  /\ FloatLe(lo, calls[a].value)
                  /\ FloatLe(calls[a].value, hi)

C10_Witness ==
    /\ Len(calls) = 3
    /\ calls[1].pct = P99 /\ calls[2].pct = P50 /\ calls[3].pct = P95
    /\ FloatLt(calls[2].value, calls[3].value)
    /\ FloatLt(calls[3].value, calls[1].value)
    /\ NoNaN(original)

====
